---------------------------- MODULE Spec2Model ----------------------------
(***************************************************************************)
(* Two-player Coup (open_spiel/games/coup.{h,cc}): the state of CoupState, *)
(* the transition CoupState::DoApplyAction, the oracle                     *)
(* CoupState::LegalActions and the evaluators IsTerminal / Rewards /       *)
(* Returns.                                                                *)
(*                                                                         *)
(* A program state is a record with one field per data member of           *)
(* CoupState (same names); the module's variables are those members.       *)
(* SpielFatalError, a failed SPIEL_CHECK and an uncaught std::out_of_range *)
(* from vector::at abort the process: the model records the abort in the   *)
(* variable fatal and leaves the data members as they were before the      *)
(* call.                                                                   *)
(***************************************************************************)
EXTENDS Integers, Sequences, FiniteSets, TLC

\* ------------------------------------------------------------ bounds
\* Plays are explored up to this number of player decisions.
MaxDecisions == 8
\* The caller's draws range over the first NumDealtTypes card types of
\* DealOrder.
NumDealtTypes == 2

\* ------------------------------------------------------------ coup.h
kNumPlayers == 2
kMaxCardsInHand == 4
kNumCardTypes == 5
kNumEachCardInDeck == 3

\* enum class CardType
kAssassin == 0
kAmbassador == 1
kCaptain == 2
kContessa == 3
kDuke == 4

\* enum class CardStateType
kFaceDown == 0
kFaceUp == 1

\* enum class ActionType, as coup.h numbers it
kNone == -1
kIncome == 0
kForeignAid == 1
kCoup == 2
kTax == 3
kAssassinate == 4
kExchange == 5
kSteal == 6
kLoseCard1 == 7
kLoseCard2 == 8
kPass == 9
kBlock == 10
kChallenge == 11
kExchangeReturn12 == 12
kExchangeReturn13 == 13
kExchangeReturn14 == 14
kExchangeReturn23 == 15
kExchangeReturn24 == 16
kExchangeReturn34 == 17

\* The enumerators coup.cc dispatches on and coup.h does not declare: one
\* pass / block / challenge per pending declaration.  coup.cc only relies on
\* their relative order (the range tests kPassFA..kPassStealBlock and
\* kBlockFA..kBlockSteal), which is the order coup.cc:113-146 lists them in;
\* they are numbered here after the last enumerator of coup.h.
kPassFA == 18
kPassFABlock == 19
kPassTax == 20
kPassExchange == 21
kPassAssassinateBlock == 22
kPassSteal == 23
kPassStealBlock == 24
kBlockFA == 25
kBlockAssassinate == 26
kBlockSteal == 27
kChallengeFABlock == 28
kChallengeTax == 29
kChallengeExchange == 30
kChallengeAssassinate == 31
kChallengeAssassinateBlock == 32
kChallengeSteal == 33
kChallengeStealBlock == 34

\* spiel.h player ids
kChancePlayerId == -1
kTerminalPlayerId == -4

Players == 0 .. (kNumPlayers - 1)
CardTypes == 0 .. (kNumCardTypes - 1)

\* The generic action of coup.h that a context-specific enumerator of
\* coup.cc stands for (kPassFA, kPassTax, ... are all "pass").
GenericAction(a) ==
  IF a >= kPassFA /\ a <= kPassStealBlock THEN kPass
  ELSE IF a >= kBlockFA /\ a <= kBlockSteal THEN kBlock
  ELSE IF a >= kChallengeFABlock /\ a <= kChallengeStealBlock THEN kChallenge
  ELSE a

GenericActions(legal) == [i \in DOMAIN legal |-> GenericAction(legal[i])]

\* ------------------------------------------------------------ aborts
NoError == "none"
ErrCheckMoveGE == "SPIEL_CHECK_GE(move, 0)"
ErrCheckMoveLT == "SPIEL_CHECK_LT(move, deck_.size())"
ErrCheckDeckGT == "SPIEL_CHECK_GT(deck_.at(move), 0)"
ErrCheckQueueGT == "SPIEL_CHECK_GT(deal_card_to_.size(), 0)"
ErrCheckCoins == "SPIEL_CHECK_GE(coins)"
ErrCheckFaceDown == "SPIEL_CHECK_EQ(state, kFaceDown)"
ErrCheckSize == "SPIEL_CHECK_EQ(cards.size(), 2)"
ErrOutOfRange == "std::out_of_range"
ErrReplace == "Error: Tried to replace card which was not found in hand"
ErrInvalidAction == "Invalid player action"
ErrProgression == "Error in LegalActions(): Invalid action progression"
ErrMidExchange == "Error in LegalActions(): Player mid-exchange should have 4 cards"

Fail(s, msg) == IF s.fatal = NoError THEN [s EXCEPT !.fatal = msg] ELSE s

\* ------------------------------------------------------------ CoupCard / CoupPlayer
CoupCard(v, st) == [value |-> v, state |-> st]

\* CoupCard::operator<
CardLess(a, b) ==
  a.value < b.value \/ (a.value = b.value /\ a.state < b.state)

RECURSIVE InsertSorted(_, _)
InsertSorted(c, cs) ==
  IF cs = <<>> THEN <<c>>
  ELSE IF CardLess(c, Head(cs)) THEN <<c>> \o cs
  ELSE <<Head(cs)>> \o InsertSorted(c, Tail(cs))

\* CoupPlayer::SortCards: std::sort of the hand by operator<
RECURSIVE SortCards(_)
SortCards(cs) ==
  IF cs = <<>> THEN <<>> ELSE InsertSorted(Head(cs), SortCards(Tail(cs)))

\* CoupPlayer::HasFaceDownCard
HasFaceDownCard(p, card) ==
  \E i \in 1 .. Len(p.cards) :
    p.cards[i].value = card /\ p.cards[i].state = kFaceDown

\* vector::erase(begin() + i), i counted from 0
Erase(cs, i) == SubSeq(cs, 1, i) \o SubSeq(cs, i + 2, Len(cs))

\* cards.at(i).state = kFaceUp, i counted from 0
FlipUp(cs, i) == [cs EXCEPT ![i + 1].state = kFaceUp]


\* ------------------------------------------------------------ evaluators
\* CoupState::IsTerminal: a player is alive iff some card of the hand is
\* face down; terminal iff at most one player is alive.
NumPlayersAlive(s) ==
  Cardinality({p \in Players :
    \E i \in 1 .. Len(s.players_[p].cards) :
      s.players_[p].cards[i].state = kFaceDown})

IsTerminal(s) == ~(NumPlayersAlive(s) > 1)

\* A variant of CurrentPlayer that tests is_chance_ before IsTerminal().
CurrentPlayer_ChanceFirst(s) ==
  IF s.is_chance_ THEN kChancePlayerId
  ELSE IF IsTerminal(s) THEN kTerminalPlayerId
  ELSE s.cur_player_move_

\* CoupState::CurrentPlayer
CurrentPlayer(s) ==
  IF IsTerminal(s) THEN kTerminalPlayerId
  ELSE IF s.is_chance_ THEN kChancePlayerId
  ELSE s.cur_player_move_

\* State::IsChanceNode, used by DoApplyAction and LegalActions.  Its body is
\* not in coup.{h,cc}; it is the chance context of the dispatch order:
\* the pending-deal queue is non-empty.
IsChanceNode(s) == Len(s.deal_card_to_) > 0

\* CoupState::Rewards
Rewards(s) == s.cur_rewards_

\* CoupGame::MinUtility, MaxUtility, UtilitySum
MinUtility == -2
MaxUtility == 2
UtilitySum == 0

\* CoupState::Returns
FaceUpCount(s, p) ==
  Cardinality({i \in 1 .. Len(s.players_[p].cards) :
    s.players_[p].cards[i].state = kFaceUp})

Returns(s) == [p \in Players |-> FaceUpCount(s, 1 - p) - FaceUpCount(s, p)]

\* CoupState::ChanceOutcomes: one pair <<i, p>> per card type, p the
\* quotient of the two ints deck_.at(i) and deckSize (std::reduce of deck_).
ErrNotChance == "SPIEL_CHECK_TRUE(IsChanceNode())"

DeckSize(s) ==
  s.deck_[0] + s.deck_[1] + s.deck_[2] + s.deck_[3] + s.deck_[4]

ChanceOutcomes(s) ==
  IF ~IsChanceNode(s) THEN [fatal |-> ErrNotChance, outcomes |-> <<>>]
  ELSE [fatal |-> NoError,
        outcomes |-> [k \in 1 .. kNumCardTypes |->
                        <<k - 1, s.deck_[k - 1] \div DeckSize(s)>>]]

\* ------------------------------------------------------------ cursor
\* A variant of NextPlayerTurn that hands the turn to the opponent of the
\* move player instead of the opponent of the turn player.
NextPlayerTurn_FromMover(s) ==
  [s EXCEPT !.cur_player_turn_ = 1 - s.cur_player_move_,
            !.cur_player_move_ = 1 - s.cur_player_move_,
            !.opp_player_ = s.cur_player_move_,
            !.turn_number_ = s.turn_number_ + 1,
            !.is_turn_begin_ = TRUE]

\* A variant of NextPlayerTurn that leaves is_turn_begin_ as it is.
NextPlayerTurn_NoTurnBegin(s) ==
  [s EXCEPT !.cur_player_turn_ = 1 - s.cur_player_turn_,
            !.cur_player_move_ = 1 - s.cur_player_turn_,
            !.opp_player_ = 1 - (1 - s.cur_player_turn_),
            !.turn_number_ = s.turn_number_ + 1]

\* A variant of NextPlayerTurn that leaves turn_number_ as it is.
NextPlayerTurn_NoCount(s) ==
  [s EXCEPT !.cur_player_turn_ = 1 - s.cur_player_turn_,
            !.cur_player_move_ = 1 - s.cur_player_turn_,
            !.opp_player_ = s.cur_player_turn_,
            !.is_turn_begin_ = TRUE]

\* CoupState::NextPlayerTurn
NextPlayerTurn(s) ==
  [s EXCEPT !.cur_player_turn_ = 1 - s.cur_player_turn_,
            !.cur_player_move_ = 1 - s.cur_player_turn_,
            !.opp_player_ = 1 - (1 - s.cur_player_turn_),
            !.turn_number_ = s.turn_number_ + 1,
            !.is_turn_begin_ = TRUE]

\* A variant of NextPlayerMove that leaves opp_player_ as it is.
NextPlayerMove_KeepOpp(s) ==
  [s EXCEPT !.cur_player_move_ = 1 - s.cur_player_move_,
            !.is_turn_begin_ = FALSE]

\* CoupState::NextPlayerMove
NextPlayerMove(s) ==
  [s EXCEPT !.cur_player_move_ = 1 - s.cur_player_move_,
            !.opp_player_ = 1 - (1 - s.cur_player_move_),
            !.is_turn_begin_ = FALSE]

\* A variant of ChallengeFailReplaceCard that queues no replacement deal.
ChallengeFailReplaceCard_NoDeal(s, card) ==
  LET op == s.opp_player_
      cs == s.players_[op].cards
      found == {i \in 1 .. Len(cs) :
                  cs[i].value = card /\ cs[i].state = kFaceDown}
  IN  IF found = {} THEN Fail(s, ErrReplace)
      ELSE LET i == CHOOSE j \in found : \A k \in found : j <= k
           IN  [s EXCEPT !.deck_[card] = @ + 1,
                         !.players_[op].cards = Erase(@, i - 1)]

\* CoupState::ChallengeFailReplaceCard: the opponent's first face-down copy
\* of card goes back to the deck and a replacement deal is queued.
ChallengeFailReplaceCard(s, card) ==
  LET op == s.opp_player_
      cs == s.players_[op].cards
      found == {i \in 1 .. Len(cs) :
                  cs[i].value = card /\ cs[i].state = kFaceDown}
  IN  IF found = {} THEN Fail(s, ErrReplace)
      ELSE LET i == CHOOSE j \in found : \A k \in found : j <= k
           IN  [s EXCEPT !.deck_[card] = @ + 1,
                         !.players_[op].cards = Erase(@, i - 1),
                         !.deal_card_to_ = Append(@, op),
                         !.is_chance_ = TRUE]

\* The two "lose every face-down card" blocks of ChallengeAssassinate and
\* ChallengeAssassinateBlock: cards.at(0) and cards.at(1) of player loser
\* are turned face up, each flip worth -1 to loser and +1 to winner.
FlipAt(s, loser, winner, i) ==
  IF Len(s.players_[loser].cards) <= i THEN Fail(s, ErrOutOfRange)
  ELSE IF s.players_[loser].cards[i + 1].state = kFaceDown
  THEN [s EXCEPT !.players_[loser].cards = FlipUp(@, i),
                 !.cur_rewards_[loser] = @ - 1,
                 !.cur_rewards_[winner] = @ + 1]
  ELSE s

\* A variant that turns up only cards.at(0).
LoseBothCards_FirstOnly(s, loser, winner) == FlipAt(s, loser, winner, 0)

\* A variant that turns up only cards.at(1).
LoseBothCards_SecondOnly(s, loser, winner) == FlipAt(s, loser, winner, 1)

LoseBothCards(s, loser, winner) ==
  FlipAt(FlipAt(s, loser, winner, 0), loser, winner, 1)

\* A variant of the steal that always moves one coin.
StealCoins_One(s, thief, victim) ==
  [s EXCEPT !.players_[thief].coins = @ + 1,
            !.players_[victim].coins = @ - 1]

\* A variant of the steal that always moves two coins.
StealCoins_Two(s, thief, victim) ==
  [s EXCEPT !.players_[thief].coins = @ + 2,
            !.players_[victim].coins = @ - 2]

\* int numSteal = (victim.coins > 1) ? 2 : 1, moved from victim to thief
StealCoins(s, thief, victim) ==
  LET numSteal == IF s.players_[victim].coins > 1 THEN 2 ELSE 1
  IN  [s EXCEPT !.players_[thief].coins = @ + numSteal,
                !.players_[victim].coins = @ - numSteal]

\* ------------------------------------------------------------ DoApplyAction
\* A variant of the chance branch that deals to the back of deal_card_to_.
ChanceBranch_DealToBack(s, move) ==
  IF ~(move >= 0) THEN Fail(s, ErrCheckMoveGE)
  ELSE IF ~(move < kNumCardTypes) THEN Fail(s, ErrCheckMoveLT)
  ELSE IF ~(s.deck_[move] > 0) THEN Fail(s, ErrCheckDeckGT)
  ELSE IF ~(Len(s.deal_card_to_) > 0) THEN Fail(s, ErrCheckQueueGT)
  ELSE
    LET n == Len(s.deal_card_to_)
        dealToPlayer == s.deal_card_to_[n]
        s1 == [s EXCEPT
                 !.deal_card_to_ = SubSeq(@, 1, n - 1),
                 !.deck_[move] = @ - 1,
                 !.players_[dealToPlayer].cards =
                     SortCards(Append(@, CoupCard(move, kFaceDown)))]
    IN  IF Len(s1.deal_card_to_) = 0
        THEN [s1 EXCEPT !.is_chance_ = FALSE] ELSE s1

\* A variant of the chance branch that passes the move to the other player
\* when the last pending card has been dealt.
ChanceBranch_AdvanceMove(s, move) ==
  IF ~(move >= 0) THEN Fail(s, ErrCheckMoveGE)
  ELSE IF ~(move < kNumCardTypes) THEN Fail(s, ErrCheckMoveLT)
  ELSE IF ~(s.deck_[move] > 0) THEN Fail(s, ErrCheckDeckGT)
  ELSE IF ~(Len(s.deal_card_to_) > 0) THEN Fail(s, ErrCheckQueueGT)
  ELSE
    LET dealToPlayer == Head(s.deal_card_to_)
        s1 == [s EXCEPT
                 !.deal_card_to_ = Tail(@),
                 !.deck_[move] = @ - 1,
                 !.players_[dealToPlayer].cards =
                     SortCards(Append(@, CoupCard(move, kFaceDown)))]
    IN  IF Len(s1.deal_card_to_) = 0
        THEN NextPlayerMove([s1 EXCEPT !.is_chance_ = FALSE]) ELSE s1

\* The chance branch of DoApplyAction: move is the card dealt to the player
\* at the front of deal_card_to_.
ChanceBranch(s, move) ==
  IF ~(move >= 0) THEN Fail(s, ErrCheckMoveGE)
  ELSE IF ~(move < kNumCardTypes) THEN Fail(s, ErrCheckMoveLT)
  ELSE IF ~(s.deck_[move] > 0) THEN Fail(s, ErrCheckDeckGT)
  ELSE IF ~(Len(s.deal_card_to_) > 0) THEN Fail(s, ErrCheckQueueGT)
  ELSE
    LET dealToPlayer == Head(s.deal_card_to_)
        s1 == [s EXCEPT
                 !.deal_card_to_ = Tail(@),
                 !.deck_[move] = @ - 1,
                 !.players_[dealToPlayer].cards =
                     SortCards(Append(@, CoupCard(move, kFaceDown)))]
    IN  IF Len(s1.deal_card_to_) = 0
        THEN [s1 EXCEPT !.is_chance_ = FALSE] ELSE s1

\* A variant of the lose-card branch that credits nothing to the opponent.
LoseCardBranch_NoCredit(s, cp, op, move) ==
  LET cardToLose == move - kLoseCard1
  IN  IF Len(s.players_[cp].cards) <= cardToLose THEN Fail(s, ErrOutOfRange)
      ELSE IF s.players_[cp].cards[cardToLose + 1].state # kFaceDown
      THEN Fail(s, ErrCheckFaceDown)
      ELSE NextPlayerTurn(
             [s EXCEPT !.players_[cp].cards = SortCards(FlipUp(@, cardToLose)),
                       !.players_[cp].lost_challenge = FALSE,
                       !.cur_rewards_[cp] = @ - 1])

\* kLoseCard1 / kLoseCard2
LoseCardBranch(s, cp, op, move) ==
  LET cardToLose == move - kLoseCard1
  IN  IF Len(s.players_[cp].cards) <= cardToLose THEN Fail(s, ErrOutOfRange)
      ELSE IF s.players_[cp].cards[cardToLose + 1].state # kFaceDown
      THEN Fail(s, ErrCheckFaceDown)
      ELSE NextPlayerTurn(
             [s EXCEPT !.players_[cp].cards = SortCards(FlipUp(@, cardToLose)),
                       !.players_[cp].lost_challenge = FALSE,
                       !.cur_rewards_[cp] = @ - 1,
                       !.cur_rewards_[op] = @ + 1])

\* The hand positions (from 0) an exchange return names, in increasing order.
CardInd(move) ==
  (IF move <= kExchangeReturn14 THEN <<0>> ELSE <<>>)
  \o (IF move \in {kExchangeReturn12, kExchangeReturn23, kExchangeReturn24}
      THEN <<1>> ELSE <<>>)
  \o (IF move \in {kExchangeReturn13, kExchangeReturn23, kExchangeReturn34}
      THEN <<2>> ELSE <<>>)
  \o (IF move \in {kExchangeReturn14, kExchangeReturn24, kExchangeReturn34}
      THEN <<3>> ELSE <<>>)

\* A variant of the return loop that always erases the front card.
ReturnOne_Front(s, cp, c) ==
  IF c >= Len(s.players_[cp].cards) THEN Fail(s, ErrOutOfRange)
  ELSE [s EXCEPT !.players_[cp].cards = Erase(@, 0),
                 !.deck_[c] = @ + 1]

\* A variant of the return loop that adds nothing to the deck.
ReturnOne_NoDeck(s, cp, c) ==
  IF c >= Len(s.players_[cp].cards) THEN Fail(s, ErrOutOfRange)
  ELSE [s EXCEPT !.players_[cp].cards = Erase(@, c)]

\* One pass of the return loop: cp.cards.erase(begin() + c); deck_.at(c) += 1
\* (the deck entry is indexed by the hand position c).
ReturnOne(s, cp, c) ==
  IF c >= Len(s.players_[cp].cards) THEN Fail(s, ErrOutOfRange)
  ELSE [s EXCEPT !.players_[cp].cards = Erase(@, c),
                 !.deck_[c] = @ + 1]

\* kExchangeReturn12 .. kExchangeReturn34
ExchangeReturnBranch(s, cp, op, move) ==
  LET s1 == [s EXCEPT !.players_[cp].last_action = move]
      cardInd == CardInd(move)
      s2 == ReturnOne(ReturnOne(s1, cp, cardInd[2]), cp, cardInd[1])
  IN  IF s2.fatal # NoError THEN s2
      ELSE IF Len(s2.players_[cp].cards) # 2 THEN Fail(s2, ErrCheckSize)
      ELSE IF s2.players_[op].lost_challenge THEN NextPlayerMove(s2)
      ELSE NextPlayerTurn(s2)

\* The challenge branches that do not re-enter DoApplyAction.  cp is the
\* challenger (the move player), op the accused.
ChallengeBranch(s, cp, op, move) ==
  LET s1 == [s EXCEPT !.players_[cp].last_action = move]
      cpLost == [s1 EXCEPT !.players_[cp].lost_challenge = TRUE]
      opLost == [s1 EXCEPT !.players_[op].lost_challenge = TRUE]
      opHas(card) == HasFaceDownCard(s1.players_[op], card)
  IN
  IF move = kChallengeFABlock THEN
    IF opHas(kDuke) THEN ChallengeFailReplaceCard(cpLost, kDuke)
    ELSE NextPlayerMove([opLost EXCEPT !.players_[cp].coins = @ + 2])
  ELSE IF move = kChallengeTax THEN
    IF opHas(kDuke)
    THEN [ChallengeFailReplaceCard(cpLost, kDuke)
            EXCEPT !.players_[op].coins = @ + 3]
    ELSE NextPlayerMove(opLost)
  ELSE IF move = kChallengeAssassinate THEN
    IF opHas(kAssassin) THEN LoseBothCards(s1, cp, op)
    ELSE NextPlayerMove([opLost EXCEPT !.players_[op].coins = @ + 3])
  ELSE IF move = kChallengeAssassinateBlock THEN
    IF opHas(kContessa) THEN ChallengeFailReplaceCard(cpLost, kContessa)
    ELSE LoseBothCards(s1, op, cp)
  ELSE IF move = kChallengeSteal THEN
    IF opHas(kCaptain)
    THEN StealCoins(ChallengeFailReplaceCard(cpLost, kCaptain), op, cp)
    ELSE NextPlayerMove(opLost)
  ELSE \* kChallengeStealBlock
    IF opHas(kCaptain) THEN ChallengeFailReplaceCard(cpLost, kCaptain)
    ELSE IF opHas(kAmbassador)
    THEN ChallengeFailReplaceCard(cpLost, kAmbassador)
    ELSE NextPlayerMove(StealCoins(opLost, cp, op))

RECURSIVE DoApplyAction(_, _)

\* The player branch of DoApplyAction.  cp and op are the references bound on
\* entry: players_.at(cur_player_move_) and players_.at(opp_player_).
PlayerBranch(s0, move) ==
  LET cp == s0.cur_player_move_
      op == s0.opp_player_
      \* Reset reward (of the move player)
      s == [s0 EXCEPT !.cur_rewards_[cp] = 0]
      declared == [s EXCEPT !.players_[cp].last_action = move]
  IN
  IF move = kIncome THEN
    NextPlayerTurn([declared EXCEPT !.players_[cp].coins = @ + 1])
  ELSE IF move = kForeignAid THEN
    IF s.is_turn_begin_ THEN NextPlayerMove(declared)
    ELSE NextPlayerTurn([s EXCEPT !.players_[cp].coins = @ + 2])
  ELSE IF move = kCoup THEN
    IF ~(s.players_[cp].coins >= 7) THEN Fail(s, ErrCheckCoins)
    ELSE NextPlayerMove([declared EXCEPT !.players_[cp].coins = @ - 7])
  ELSE IF move = kTax THEN
    IF s.is_turn_begin_ THEN NextPlayerMove(declared)
    ELSE NextPlayerTurn([s EXCEPT !.players_[cp].coins = @ + 3])
  ELSE IF move = kAssassinate THEN
    IF ~(s.players_[cp].coins >= 3) THEN Fail(s, ErrCheckCoins)
    ELSE NextPlayerMove([declared EXCEPT !.players_[cp].coins = @ - 3])
  ELSE IF move = kExchange THEN
    IF s.is_turn_begin_ THEN NextPlayerMove(declared)
    ELSE [s EXCEPT !.deal_card_to_ = Append(Append(@, cp), cp),
                   !.is_chance_ = TRUE]
  ELSE IF move = kSteal THEN
    IF ~(s.players_[op].coins >= 1) THEN Fail(s, ErrCheckCoins)
    ELSE IF s.is_turn_begin_ THEN NextPlayerMove(declared)
    ELSE NextPlayerTurn(StealCoins(s, cp, op))
  ELSE IF move = kLoseCard1 \/ move = kLoseCard2 THEN
    LoseCardBranch(s, cp, op, move)
  ELSE IF move >= kPassFA /\ move <= kPassStealBlock THEN
    IF move \in {kPassFABlock, kPassAssassinateBlock, kPassStealBlock}
    THEN NextPlayerTurn(declared)
    ELSE LET act == IF move = kPassFA THEN kForeignAid
                    ELSE IF move = kPassTax THEN kTax
                    ELSE IF move = kPassExchange THEN kExchange
                    ELSE kSteal
         IN  DoApplyAction(NextPlayerMove(declared), act)
  ELSE IF move >= kBlockFA /\ move <= kBlockSteal THEN
    NextPlayerMove(declared)
  ELSE IF move = kChallengeExchange THEN
    IF HasFaceDownCard(s.players_[op], kAmbassador)
    THEN DoApplyAction(
           NextPlayerMove(ChallengeFailReplaceCard(
             [declared EXCEPT !.players_[cp].lost_challenge = TRUE],
             kAmbassador)),
           kExchange)
    ELSE NextPlayerMove([declared EXCEPT !.players_[op].lost_challenge = TRUE])
  ELSE IF move >= kChallengeFABlock /\ move <= kChallengeStealBlock THEN
    ChallengeBranch(s, cp, op, move)
  ELSE IF move >= kExchangeReturn12 /\ move <= kExchangeReturn34 THEN
    ExchangeReturnBranch(s, cp, op, move)
  ELSE Fail(s, ErrInvalidAction)

\* A variant of DoApplyAction in which accepting the block of an
\* assassination gives the 3 coins back to the player who paid them.
DoApplyAction_BlockPassRefund(s, move) ==
  IF s.fatal # NoError THEN s
  ELSE IF IsChanceNode(s) THEN ChanceBranch(s, move)
  ELSE LET r == PlayerBranch(s, move)
       IN  IF move = kPassAssassinateBlock /\ r.fatal = NoError
           THEN [r EXCEPT !.players_[s.cur_player_move_].coins = @ + 3]
           ELSE r

\* A variant of DoApplyAction in which an income leaves the turn open.
DoApplyAction_IncomeWindow(s, move) ==
  IF s.fatal # NoError THEN s
  ELSE IF IsChanceNode(s) THEN ChanceBranch(s, move)
  ELSE LET r == PlayerBranch(s, move)
       IN  IF move = kIncome /\ r.fatal = NoError
           THEN [r EXCEPT !.is_turn_begin_ = FALSE]
           ELSE r

\* CoupState::DoApplyAction
DoApplyAction(s, move) ==
  IF s.fatal # NoError THEN s
  ELSE IF IsChanceNode(s) THEN ChanceBranch(s, move)
  ELSE PlayerBranch(s, move)

\* State::ApplyAction as the caller sees it: DoApplyAction runs to its end
\* or the process aborts, in which case nothing it wrote is observable.
ApplyAction(s, move) ==
  LET r == DoApplyAction(s, move)
  IN  IF r.fatal # NoError THEN [s EXCEPT !.fatal = r.fatal] ELSE r

\* ------------------------------------------------------------ LegalActions
\* A call of LegalActions either returns a list or aborts: the result is
\* [fatal |-> the abort (NoError if none), legal |-> the list returned].
Legal(list) == [fatal |-> NoError, legal |-> list]
LegalAbort(msg) == [fatal |-> msg, legal |-> <<>>]

\* A variant of LegalLoseCardActions that looks at p.cards.at(0) only.
LegalLoseCardActions_FirstOnly(s) ==
  LET cs == s.players_[s.cur_player_move_].cards
  IN  IF Len(cs) < 2 THEN LegalAbort(ErrOutOfRange)
      ELSE Legal(IF cs[1].state = kFaceDown THEN <<kLoseCard1>> ELSE <<>>)

\* CoupState::LegalLoseCardActions (p.cards.at(0) and p.cards.at(1) are read)
LegalLoseCardActions(s) ==
  LET cs == s.players_[s.cur_player_move_].cards
  IN  IF Len(cs) < 2 THEN LegalAbort(ErrOutOfRange)
      ELSE Legal(
        (IF cs[1].state = kFaceDown THEN <<kLoseCard1>> ELSE <<>>)
        \o (IF cs[2].state = kFaceDown THEN <<kLoseCard2>> ELSE <<>>))

\* A variant of the exchange-return branch that offers all six pairs
\* whatever the hand shows.
LegalExchangeReturn_AllPairs(s) ==
  LET cs == s.players_[s.cur_player_move_].cards
  IN  IF Len(cs) < 4 THEN LegalAbort(ErrMidExchange)
      ELSE Legal(<<kExchangeReturn12, kExchangeReturn13, kExchangeReturn14,
                   kExchangeReturn23, kExchangeReturn24, kExchangeReturn34>>)

\* The exchange-return branch of LegalActions
LegalExchangeReturn(s) ==
  LET cs == s.players_[s.cur_player_move_].cards
      up == {i \in 1 .. Len(cs) : cs[i].state = kFaceUp}
      faceUpInd == IF up = {} THEN -1
                   ELSE (CHOOSE i \in up : \A j \in up : i <= j) - 1
  IN  IF Len(cs) < 4 THEN LegalAbort(ErrMidExchange)
      ELSE Legal(
        IF faceUpInd = -1
        THEN <<kExchangeReturn12, kExchangeReturn13, kExchangeReturn14,
               kExchangeReturn23, kExchangeReturn24, kExchangeReturn34>>
        ELSE IF faceUpInd = 0
        THEN <<kExchangeReturn23, kExchangeReturn24, kExchangeReturn34>>
        ELSE IF faceUpInd = 1
        THEN <<kExchangeReturn13, kExchangeReturn14, kExchangeReturn34>>
        ELSE IF faceUpInd = 2
        THEN <<kExchangeReturn12, kExchangeReturn14, kExchangeReturn24>>
        ELSE IF faceUpInd = 3
        THEN <<kExchangeReturn12, kExchangeReturn13, kExchangeReturn23>>
        ELSE <<>>)

\* A variant of the response window in which a tax can also be blocked.
LegalResponse_TaxBlockable(s) ==
  LET last == s.players_[s.opp_player_].last_action
  IN  IF last = kForeignAid THEN Legal(<<kPassFA, kBlockFA>>)
      ELSE IF last = kTax THEN Legal(<<kPassTax, kBlockFA, kChallengeTax>>)
      ELSE IF last = kExchange
      THEN Legal(<<kPassExchange, kChallengeExchange>>)
      ELSE IF last = kSteal
      THEN Legal(<<kPassSteal, kBlockSteal, kChallengeSteal>>)
      ELSE IF last = kAssassinate THEN
        LET lose == LegalLoseCardActions(s)
        IN  IF lose.fatal # NoError THEN lose
            ELSE Legal(lose.legal \o <<kBlockAssassinate, kChallengeAssassinate>>)
      ELSE IF last = kCoup THEN LegalLoseCardActions(s)
      ELSE LegalAbort(ErrProgression)

\* A variant of the response window in which the victim of an assassination
\* is not offered its lose-card options.
LegalResponse_AssassinateNoLose(s) ==
  LET last == s.players_[s.opp_player_].last_action
  IN  IF last = kForeignAid THEN Legal(<<kPassFA, kBlockFA>>)
      ELSE IF last = kTax THEN Legal(<<kPassTax, kChallengeTax>>)
      ELSE IF last = kExchange
      THEN Legal(<<kPassExchange, kChallengeExchange>>)
      ELSE IF last = kSteal
      THEN Legal(<<kPassSteal, kBlockSteal, kChallengeSteal>>)
      ELSE IF last = kAssassinate
      THEN Legal(<<kBlockAssassinate, kChallengeAssassinate>>)
      ELSE IF last = kCoup THEN LegalLoseCardActions(s)
      ELSE LegalAbort(ErrProgression)

\* The response-window branch of LegalActions (the move player is not the
\* turn player); op is the turn player.
LegalResponse(s) ==
  LET last == s.players_[s.opp_player_].last_action
  IN  IF last = kForeignAid THEN Legal(<<kPassFA, kBlockFA>>)
      ELSE IF last = kTax THEN Legal(<<kPassTax, kChallengeTax>>)
      ELSE IF last = kExchange
      THEN Legal(<<kPassExchange, kChallengeExchange>>)
      ELSE IF last = kSteal
      THEN Legal(<<kPassSteal, kBlockSteal, kChallengeSteal>>)
      ELSE IF last = kAssassinate THEN
        LET lose == LegalLoseCardActions(s)
        IN  IF lose.fatal # NoError THEN lose
            ELSE Legal(lose.legal \o <<kBlockAssassinate, kChallengeAssassinate>>)
      ELSE IF last = kCoup THEN LegalLoseCardActions(s)
      ELSE LegalAbort(ErrProgression)

\* CoupState::LegalActions
LegalActionsCall(s) ==
  LET cp == s.players_[s.cur_player_move_]
      op == s.players_[s.opp_player_]
  IN
  IF IsTerminal(s) THEN Legal(<<>>)
  ELSE IF IsChanceNode(s) THEN Legal(<<0, 1, 2, 3, 4>>)
  ELSE IF s.is_turn_begin_ THEN
    IF cp.coins >= 10 THEN Legal(<<kCoup>>)
    ELSE Legal(
      <<kIncome, kForeignAid>>
      \o (IF cp.coins >= 7 THEN <<kCoup>> ELSE <<>>)
      \o <<kTax>>
      \o (IF cp.coins >= 3 THEN <<kAssassinate>> ELSE <<>>)
      \o <<kExchange>>
      \o (IF op.coins > 0 THEN <<kSteal>> ELSE <<>>))
  ELSE IF cp.lost_challenge THEN LegalLoseCardActions(s)
  ELSE IF s.cur_player_move_ # s.cur_player_turn_ THEN LegalResponse(s)
  ELSE IF cp.last_action = kExchange THEN LegalExchangeReturn(s)
  ELSE IF op.last_action = kBlockFA
  THEN Legal(<<kPassFABlock, kChallengeFABlock>>)
  ELSE IF cp.last_action = kBlockAssassinate
  THEN Legal(<<kPassAssassinateBlock, kChallengeAssassinateBlock>>)
  ELSE IF cp.last_action = kBlockSteal
  THEN Legal(<<kPassStealBlock, kChallengeStealBlock>>)
  ELSE LegalAbort(ErrProgression)

\* A variant of LegalActions that offers the steal at every start of turn
\* below 10 coins, whatever the opponent owns.
LegalActions_StealUngated(s) ==
  LET r == LegalActionsCall(s).legal
  IN  IF Len(r) > 1 /\ r[1] = kIncome /\ r[Len(r)] # kSteal
      THEN Append(r, kSteal) ELSE r

\* A variant of LegalActions without the forced coup at 10 coins or more.
LegalActions_NoForcedCoup(s) ==
  LET r == LegalActionsCall(s).legal
  IN  IF s.is_turn_begin_ /\ r = <<kCoup>>
      THEN <<kIncome, kForeignAid, kCoup, kTax>> ELSE r

LegalActions(s) == LegalActionsCall(s).legal
LegalActionsAborts(s) == LegalActionsCall(s).fatal # NoError

\* ------------------------------------------------------------ state
VARIABLES
  deck_,            \* count of each card in the deck, by CardType
  players_,         \* per player: cards, coins, last_action, lost_challenge
  deal_card_to_,    \* queue of the players to deal a card to
  cur_player_turn_,
  cur_player_move_,
  opp_player_,
  is_turn_begin_,
  turn_number_,
  is_chance_,
  cur_rewards_,
  fatal,            \* the abort that ended the process, NoError while it runs
  history_back,     \* the last entry of history_: the action applied last
  num_decisions,    \* the number of player decisions in history_
  rewards_sum,      \* per player, the sum of Rewards() read after each action
  deal_from,        \* where in DealOrder the roles drawn in this play start
  turn_decisions,   \* player decisions in history_ since the last ++turn_number_
  turn_draws,       \* chance draws in history_ since then, the opening deal apart
  turn_start_coins  \* per player, the coins read at the last ++turn_number_

vars == <<deck_, players_, deal_card_to_, cur_player_turn_, cur_player_move_,
          opp_player_, is_turn_begin_, turn_number_, is_chance_, cur_rewards_,
          fatal, history_back, num_decisions, rewards_sum, deal_from,
          turn_decisions, turn_draws, turn_start_coins>>

\* The program state as one record.
St ==
  [deck_ |-> deck_, players_ |-> players_, deal_card_to_ |-> deal_card_to_,
   cur_player_turn_ |-> cur_player_turn_, cur_player_move_ |-> cur_player_move_,
   opp_player_ |-> opp_player_, is_turn_begin_ |-> is_turn_begin_,
   turn_number_ |-> turn_number_, is_chance_ |-> is_chance_,
   cur_rewards_ |-> cur_rewards_, fatal |-> fatal]

\* CoupState::CoupState
InitialState ==
  [deck_ |-> [c \in CardTypes |-> kNumEachCardInDeck],
   players_ |-> [p \in Players |->
      [cards |-> <<>>,
       coins |-> IF p = 0 THEN 1 ELSE 2,
       last_action |-> kNone,
       lost_challenge |-> FALSE]],
   deal_card_to_ |-> <<0, 1, 0, 1>>,
   cur_player_turn_ |-> 0,
   cur_player_move_ |-> 0,
   opp_player_ |-> 1,
   is_turn_begin_ |-> TRUE,
   turn_number_ |-> 0,
   is_chance_ |-> TRUE,
   cur_rewards_ |-> [p \in Players |-> 0],
   fatal |-> NoError]

NoMove == [chance |-> FALSE, player |-> kChancePlayerId, action |-> kNone]

\* The card indices the caller draws in one play: NumDealtTypes roles that
\* follow each other in DealOrder (cyclically), from one of DealStarts.
DealOrder == <<kDuke, kAmbassador, kAssassin, kCaptain, kContessa>>
DealStarts == {1, 3}

Init ==
  /\ deck_ = InitialState.deck_
  /\ players_ = InitialState.players_
  /\ deal_card_to_ = InitialState.deal_card_to_
  /\ cur_player_turn_ = InitialState.cur_player_turn_
  /\ cur_player_move_ = InitialState.cur_player_move_
  /\ opp_player_ = InitialState.opp_player_
  /\ is_turn_begin_ = InitialState.is_turn_begin_
  /\ turn_number_ = InitialState.turn_number_
  /\ is_chance_ = InitialState.is_chance_
  /\ cur_rewards_ = InitialState.cur_rewards_
  /\ fatal = InitialState.fatal
  /\ history_back = NoMove
  /\ num_decisions = 0
  /\ rewards_sum = [p \in Players |-> 0]
  /\ deal_from \in DealStarts
  /\ turn_decisions = 0
  /\ turn_draws = 0
  /\ turn_start_coins = [p \in Players |-> InitialState.players_[p].coins]

\* One call state->ApplyAction(move) followed by a read of Rewards().
\* who is the player the action belongs to: the player dealt to at a chance
\* node, the move player otherwise.
\* The caller stops a play after cap player decisions.
ApplyWithin(cap, move, isChance, who) ==
  LET n == ApplyAction(St, move)
      ok == n.fatal = NoError
  IN  /\ isChance \/ num_decisions < cap
      /\ num_decisions' = IF ok /\ ~isChance THEN num_decisions + 1
                          ELSE num_decisions
      /\ deck_' = n.deck_
      /\ players_' = n.players_
      /\ deal_card_to_' = n.deal_card_to_
      /\ cur_player_turn_' = n.cur_player_turn_
      /\ cur_player_move_' = n.cur_player_move_
      /\ opp_player_' = n.opp_player_
      /\ is_turn_begin_' = n.is_turn_begin_
      /\ turn_number_' = n.turn_number_
      /\ is_chance_' = n.is_chance_
      /\ cur_rewards_' = n.cur_rewards_
      /\ fatal' = n.fatal
      /\ history_back' =
           IF ok THEN [chance |-> isChance, player |-> who, action |-> move]
           ELSE history_back
      /\ rewards_sum' =
           IF ok THEN [p \in Players |-> rewards_sum[p] + Rewards(n)[p]]
           ELSE rewards_sum
      /\ deal_from' = deal_from
      /\ turn_decisions' =
           IF ~ok THEN turn_decisions
           ELSE IF n.turn_number_ # turn_number_ THEN 0
           ELSE IF isChance THEN turn_decisions
           ELSE turn_decisions + 1
      /\ turn_draws' =
           IF ~ok THEN turn_draws
           ELSE IF n.turn_number_ # turn_number_ THEN 0
           ELSE IF isChance /\ num_decisions > 0 THEN turn_draws + 1
           ELSE turn_draws
      /\ turn_start_coins' =
           IF ok /\ n.turn_number_ # turn_number_
           THEN [p \in Players |-> n.players_[p].coins]
           ELSE turn_start_coins

Apply(move, isChance, who) == ApplyWithin(MaxDecisions, move, isChance, who)

DealtCards ==
  {DealOrder[((deal_from - 1 + k) % kNumCardTypes) + 1] :
     k \in {j \in 0 .. (kNumCardTypes - 1) : j < NumDealtTypes}}

\* The caller deals: while deals are pending it applies a card index, any of
\* the five the chance branch of LegalActions lists (coup_test.cc applies
\* the opening deals right after construction, without asking LegalActions).
ApplyChance ==
  /\ fatal = NoError
  /\ IsChanceNode(St)
  /\ \E move \in DealtCards : Apply(move, TRUE, Head(deal_card_to_))

\* The caller plays: at a player decision it applies one of LegalActions().
ApplyPlayer ==
  /\ fatal = NoError
  /\ ~IsChanceNode(St)
  /\ ~LegalActionsAborts(St)
  /\ \E i \in DOMAIN LegalActions(St) :
       Apply(LegalActions(St)[i], FALSE, cur_player_move_)

\* The caller asks for LegalActions() at a player decision and the call aborts.
LegalActionsAbort ==
  /\ fatal = NoError
  /\ ~IsChanceNode(St)
  /\ LegalActionsAborts(St)
  /\ fatal' = LegalActionsCall(St).fatal
  /\ UNCHANGED <<deck_, players_, deal_card_to_, cur_player_turn_,
                 cur_player_move_, opp_player_, is_turn_begin_, turn_number_,
                 is_chance_, cur_rewards_, history_back, num_decisions,
                 rewards_sum, deal_from, turn_decisions, turn_draws,
                 turn_start_coins>>

Next == ApplyChance \/ ApplyPlayer \/ LegalActionsAbort

Spec == Init /\ [][Next]_vars

\* CoupGame::MaxGameLength
MaxGameLength == 90

\* Plays in which neither player plays to win (coup.h: "If neither player is
\* playing to win, could be infinite"): every turn is a foreign aid that the
\* opponent blocks and the turn player lets pass.  The actions are taken
\* from LegalActions() like any other; the caller stops after MaxGameLength
\* decisions.
PassiveActions == {kForeignAid, kBlockFA, kPassFABlock}

ApplyPassive ==
  /\ fatal = NoError
  /\ ~IsChanceNode(St)
  /\ ~LegalActionsAborts(St)
  /\ \E i \in DOMAIN LegalActions(St) :
       /\ LegalActions(St)[i] \in PassiveActions
       /\ ApplyWithin(MaxGameLength, LegalActions(St)[i], FALSE,
                      cur_player_move_)

NextPassive == ApplyChance \/ ApplyPassive

SpecPassive == Init /\ [][NextPassive]_vars

\* Plays in which both players hoard coins: every turn is an income, a
\* foreign aid or a tax that the opponent lets pass, or a coup followed by
\* the sacrifice.  The actions are taken from LegalActions() like any
\* other; the caller stops after MaxHoardDecisions decisions.
MaxHoardDecisions == 14

HoardActions ==
  {kIncome, kForeignAid, kTax, kPassFA, kPassTax, kCoup, kLoseCard1,
   kLoseCard2}

ApplyHoard ==
  /\ fatal = NoError
  /\ ~IsChanceNode(St)
  /\ ~LegalActionsAborts(St)
  /\ \E i \in DOMAIN LegalActions(St) :
       /\ LegalActions(St)[i] \in HoardActions
       /\ ApplyWithin(MaxHoardDecisions, LegalActions(St)[i], FALSE,
                      cur_player_move_)

NextHoard == ApplyChance \/ ApplyHoard

SpecHoard == Init /\ [][NextHoard]_vars

\* ------------------------------------------------------------ claims
\* Copies of card c in the two hands, face down or face up.
CopiesInHands(c) ==
  LET n(p) == Cardinality({i \in 1 .. Len(players_[p].cards) :
                             players_[p].cards[i].value = c})
  IN  n(0) + n(1)

HandSize(p) == Len(players_[p].cards)
FaceUp(p) == FaceUpCount(St, p)
FaceDown(p) == HandSize(p) - FaceUp(p)

\* C1: card conservation.  In every reachable state, for each of the five
\* roles, deck count + copies in both hands (face down and face up) = 3, so
\* no deck count exceeds 3.
C1_Conservation ==
  \A c \in CardTypes :
    /\ deck_[c] + CopiesInHands(c) = kNumEachCardInDeck
    /\ deck_[c] <= kNumEachCardInDeck

\* C2: legality closure.  In every reachable state, applying any action that
\* LegalActions() returns completes without an abort.
C2_LegalityClosure ==
  fatal = NoError =>
    \A i \in DOMAIN LegalActions(St) :
      ApplyAction(St, LegalActions(St)[i]).fatal = NoError

\* C3: at every chance decision point (CurrentPlayer() is the chance
\* player), LegalActions() is exactly the set of roles whose deck count is
\* greater than 0.
C3_ChanceLegalInDeck ==
  (fatal = NoError /\ CurrentPlayer(St) = kChancePlayerId) =>
    {LegalActions(St)[i] : i \in DOMAIN LegalActions(St)}
      = {c \in CardTypes : deck_[c] > 0}

\* C4: the freshly constructed state is a chance decision point:
\* CurrentPlayer() is the chance player and IsTerminal() is false.
C4_InitialIsChance ==
  (history_back = NoMove /\ fatal = NoError) =>
    CurrentPlayer(St) = kChancePlayerId /\ ~IsTerminal(St)

\* C5: IsTerminal() is true iff at most one player is alive, where a player
\* is alive who has a face-down card or holds fewer than 2 cards; so no
\* state with a hand of fewer than 2 cards is terminal, and in a terminal
\* state some player has two face-up cards.
AliveOrMidDeal(p) == HandSize(p) < 2 \/ FaceDown(p) > 0
C5_TerminalIffOneAlive ==
  /\ IsTerminal(St) <=> Cardinality({p \in Players : AliveOrMidDeal(p)}) <= 1
  /\ (\E p \in Players : HandSize(p) < 2) => ~IsTerminal(St)
  /\ IsTerminal(St) => \E p \in Players : FaceUp(p) = 2

\* C6: reward consistency.  When a play has ended (IsTerminal() with a
\* player whose two cards are face up), for each player the sum of the
\* Rewards() read after each applied action equals Returns().
GameOver ==
  /\ fatal = NoError
  /\ IsTerminal(St)
  /\ deal_card_to_ = <<>>
  /\ \E p \in Players : HandSize(p) = 2 /\ FaceUp(p) = 2
C6_RewardConsistency ==
  GameOver => \A p \in Players : rewards_sum[p] = Returns(St)[p]

\* C7: per-step reward.  After any applied action, Rewards() of each player
\* is (opponent's cards turned face up by that action) - (own cards turned
\* face up by that action); both entries are 0 when the action flips no card.
FlippedBy(p) == FaceUp(p)' - FaceUp(p)
C7_PerStepReward ==
  [][(fatal' = NoError) =>
       \A p \in Players : cur_rewards_'[p] = FlippedBy(1 - p) - FlippedBy(p)]_vars

CardsDealt == HandSize(0) + HandSize(1)
C9_OpeningDeal ==
  (num_decisions = 0 /\ fatal = NoError) =>
    /\ HandSize(0) = (CardsDealt + 1) \div 2
    /\ HandSize(1) = CardsDealt \div 2
    /\ history_back.chance => history_back.player = (CardsDealt - 1) % 2
    /\ CardsDealt = 4 =>
         /\ \A p \in Players : FaceDown(p) = 2 /\ FaceUp(p) = 0
         /\ players_[0].coins = 1
         /\ players_[1].coins = 2
         /\ \A p \in Players : players_[p].last_action = kNone
         /\ ~is_chance_
         /\ ~IsChanceNode(St)
         /\ CurrentPlayer(St) = 0
         /\ cur_player_turn_ = 0
         /\ is_turn_begin_

\* C9's case: the four opening draws have been applied.
C9_Witness ==
  /\ num_decisions = 0
  /\ fatal = NoError
  /\ CardsDealt = 4
  /\ history_back.chance
  /\ history_back.player = 1

\* C10: after an opponent blocks a foreign aid, a steal or an assassination,
\* the decision is back with the turn player and LegalActions() is exactly
\* <<pass, challenge>>, for all three kinds of block.
C10_AfterBlock ==
  (/\ fatal = NoError
   /\ ~history_back.chance
   /\ history_back.action \in {kBlockFA, kBlockAssassinate, kBlockSteal}) =>
    /\ CurrentPlayer(St) = cur_player_turn_
    /\ ~LegalActionsAborts(St)
    /\ GenericActions(LegalActions(St)) = <<kPass, kChallenge>>

\* An action a is in the list LegalActions() returns in the current state.
InLegal(a) ==
  /\ ~LegalActionsAborts(St)
  /\ \E i \in DOMAIN LegalActions(St) : LegalActions(St)[i] = a

\* C11: when an exchange may be challenged and the exchanger holds a
\* face-down Ambassador, applying the challenge completes without an abort:
\* the Ambassador is back in the deck, its replacement is queued for the
\* exchanger and the challenger owes the sacrifice.
C11_ChallengeExchangeGenuine ==
  (/\ fatal = NoError
   /\ InLegal(kChallengeExchange)
   /\ HasFaceDownCard(players_[opp_player_], kAmbassador)) =>
    LET n == ApplyAction(St, kChallengeExchange)
    IN  /\ n.fatal = NoError
        /\ n.deck_[kAmbassador] = deck_[kAmbassador] + 1
        /\ Len(n.deal_card_to_) > 0
        /\ Head(n.deal_card_to_) = opp_player_
        /\ n.players_[cur_player_move_].lost_challenge

\* A step that applies a lose-card action of a player.
LoseCardStep ==
  /\ fatal' = NoError
  /\ num_decisions' = num_decisions + 1
  /\ history_back'.action \in {kLoseCard1, kLoseCard2}

\* C12 as stated: after a lose-card action that does not end the play, a
\* fresh turn starts and the new turn player is the opponent of the player
\* who sacrificed, whichever player's turn it was before.
C12_TurnToSacrificersOpponent ==
  [][(LoseCardStep /\ ~IsTerminal(St)') =>
       /\ is_turn_begin_'
       /\ cur_player_move_' = cur_player_turn_'
       /\ cur_player_turn_' = 1 - history_back'.player]_vars

\* C12 amended: after a lose-card action a fresh turn starts and the new
\* turn player is the opponent of the previous turn player (turns
\* alternate), whoever sacrificed the card.
C12_TurnAlternates ==
  [][LoseCardStep =>
       /\ is_turn_begin_'
       /\ cur_player_move_' = cur_player_turn_'
       /\ opp_player_' = 1 - cur_player_turn_'
       /\ cur_player_turn_' = 1 - cur_player_turn_]_vars

\* C12's case: a player who was not the turn player has sacrificed a card,
\* the play goes on, and the turn is now that player's.
C12_Witness ==
  /\ fatal = NoError
  /\ ~history_back.chance
  /\ history_back.action \in {kLoseCard1, kLoseCard2}
  /\ ~IsTerminal(St)
  /\ is_turn_begin_
  /\ cur_player_turn_ = history_back.player

\* Every action value a caller can submit at a player decision.
AllActions == kIncome .. kChallengeStealBlock

\* C13: protocol violations are fatal.  At any player decision point,
\* applying an action that is not in LegalActions() aborts and leaves the
\* state as it was.
C13_IllegalActionAborts ==
  (/\ fatal = NoError
   /\ ~IsChanceNode(St)
   /\ CurrentPlayer(St) \in Players
   /\ ~LegalActionsAborts(St)) =>
    \A a \in AllActions : ~InLegal(a) => ApplyAction(St, a).fatal # NoError

\* C14: chance fairness.  At every chance decision point ChanceOutcomes()
\* gives each role the probability count(role) / (cards left in the deck)
\* (p * total = count, so 0 for an exhausted role), and the probabilities
\* sum to 1.
C14_ChanceFairness ==
  (fatal = NoError /\ CurrentPlayer(St) = kChancePlayerId) =>
    LET r == ChanceOutcomes(St)
        o == r.outcomes
    IN  /\ r.fatal = NoError
        /\ \A k \in DOMAIN o : o[k][2] * DeckSize(St) = deck_[o[k][1]]
        /\ o[1][2] + o[2][2] + o[3][2] + o[4][2] + o[5][2] = 1

\* The challenge that answers the accused's last action, and the roles
\* whose face-down copy proves that action genuine.
ChallengeOf(last) ==
  IF last = kTax THEN kChallengeTax
  ELSE IF last = kExchange THEN kChallengeExchange
  ELSE IF last = kAssassinate THEN kChallengeAssassinate
  ELSE IF last = kSteal THEN kChallengeSteal
  ELSE IF last = kBlockFA THEN kChallengeFABlock
  ELSE IF last = kBlockAssassinate THEN kChallengeAssassinateBlock
  ELSE IF last = kBlockSteal THEN kChallengeStealBlock
  ELSE kNone

ClaimedRoles(last) ==
  IF last = kTax \/ last = kBlockFA THEN {kDuke}
  ELSE IF last = kExchange THEN {kAmbassador}
  ELSE IF last = kAssassinate THEN {kAssassin}
  ELSE IF last = kSteal THEN {kCaptain}
  ELSE IF last = kBlockAssassinate THEN {kContessa}
  ELSE IF last = kBlockSteal THEN {kCaptain, kAmbassador}
  ELSE {}

\* The last applied action is a declaration or block of one of kinds, made
\* by the opponent of the move player (the accused); the move player may
\* challenge it.
Challengeable(kinds) ==
  /\ fatal = NoError
  /\ ~history_back.chance
  /\ history_back.action \in kinds
  /\ history_back.player = opp_player_
  /\ cur_player_move_ # opp_player_

Genuine ==
  \E r \in ClaimedRoles(history_back.action) :
    HasFaceDownCard(players_[opp_player_], r)

\* The lose-card options of player p in state s: its face-down positions.
LoseOptions(s, p) ==
  LET cs == s.players_[p].cards
  IN  (IF Len(cs) >= 1 /\ cs[1].state = kFaceDown THEN <<kLoseCard1>> ELSE <<>>)
      \o (IF Len(cs) >= 2 /\ cs[2].state = kFaceDown THEN <<kLoseCard2>>
          ELSE <<>>)

\* C15: challenge against a genuine holder (tax, steal, block of foreign
\* aid, of steal, of assassination).  The next decision point is exactly one
\* chance draw dealt to the accused, whose proven card is back in the deck;
\* after the draw the accused holds 2 cards again, the challenger is the
\* move player, the turn has not advanced, and the challenger's legal
\* actions are exactly its lose-card options.
C15_GenuineKinds ==
  {kTax, kSteal, kBlockFA, kBlockSteal, kBlockAssassinate}

C15_ChallengeGenuine ==
  (Challengeable(C15_GenuineKinds) /\ Genuine) =>
    LET acc == opp_player_
        chal == cur_player_move_
        n == ApplyAction(St, ChallengeOf(history_back.action))
    IN  /\ n.fatal = NoError
        /\ CurrentPlayer(n) = kChancePlayerId
        /\ n.deal_card_to_ = <<acc>>
        /\ DeckSize(n) = DeckSize(St) + 1
        /\ \E r \in ClaimedRoles(history_back.action) :
             n.deck_[r] = deck_[r] + 1
        /\ \A c \in CardTypes :
             n.deck_[c] > 0 =>
               LET m == ApplyAction(n, c)
               IN  /\ m.fatal = NoError
                   /\ Len(m.players_[acc].cards) = 2
                   /\ CurrentPlayer(m) = chal
                   /\ m.cur_player_turn_ = cur_player_turn_
                   /\ m.turn_number_ = turn_number_
                   /\ LegalActionsCall(m) = Legal(LoseOptions(m, chal))

\* min(2, coins of player p)
StealAmount(p) == IF players_[p].coins >= 2 THEN 2 ELSE players_[p].coins

\* The accused acc owes the sacrifice in state n and is its move player,
\* in the turn that was running; chal is the challenger.
AccusedOwes(n, acc, chal) ==
  /\ n.players_[acc].lost_challenge
  /\ ~n.players_[chal].lost_challenge
  /\ n.cur_player_move_ = acc
  /\ CurrentPlayer(n) = acc
  /\ n.cur_player_turn_ = cur_player_turn_
  /\ LegalActionsCall(n) = Legal(LoseOptions(n, acc))

\* The coins after a bluffed block is challenged: the attack of the
\* challenger takes effect as if unblocked.
AttackCompleted(n, acc, chal) ==
  LET last == history_back.action
      gain == IF last = kBlockFA THEN 2
              ELSE IF last = kBlockSteal THEN StealAmount(acc)
              ELSE 0
      loss == IF last = kBlockSteal THEN StealAmount(acc) ELSE 0
  IN  /\ n.players_[chal].coins = players_[chal].coins + gain
      /\ n.players_[acc].coins = players_[acc].coins - loss

C16_BluffKinds ==
  {kTax, kExchange, kSteal, kBlockFA, kBlockSteal, kBlockAssassinate}

C17_GenuineTakesEffect ==
  (Challengeable({kTax, kSteal}) /\ Genuine) =>
    LET acc == opp_player_
        chal == cur_player_move_
        n == ApplyAction(St, ChallengeOf(history_back.action))
        gain == IF history_back.action = kTax THEN 3 ELSE StealAmount(chal)
        loss == IF history_back.action = kTax THEN 0 ELSE StealAmount(chal)
    IN  /\ n.fatal = NoError
        /\ n.players_[acc].coins = players_[acc].coins + gain
        /\ n.players_[chal].coins = players_[chal].coins - loss

\* C17's case: a steal by a holder of a Captain was challenged in the last
\* step, the victim owning at least 2 coins before.
C17_Witness ==
  /\ fatal = NoError
  /\ ~history_back.chance
  /\ history_back.action = kChallengeSteal
  /\ players_[history_back.player].lost_challenge
  /\ players_[1 - history_back.player].coins >= 3

\* The pass that answers an attack.
PassOf(last) ==
  IF last = kForeignAid THEN kPassFA
  ELSE IF last = kTax THEN kPassTax
  ELSE IF last = kSteal THEN kPassSteal
  ELSE kNone

\* C18: a pass on an unblocked attack completes it in the same step and
\* hands the turn to the passer: foreign aid gives the actor +2 coins, tax
\* +3, steal moves min(2, passer's coins) from the passer to the actor; then
\* the passer is the turn player at the start of a turn; no card is flipped.
C18_PassCompletes ==
  Challengeable({kForeignAid, kTax, kSteal}) =>
    LET actor == opp_player_
        passer == cur_player_move_
        last == history_back.action
        n == ApplyAction(St, PassOf(last))
        gain == IF last = kForeignAid THEN 2
                ELSE IF last = kTax THEN 3 ELSE StealAmount(passer)
        loss == IF last = kSteal THEN StealAmount(passer) ELSE 0
    IN  /\ n.fatal = NoError
        /\ n.players_[actor].coins = players_[actor].coins + gain
        /\ n.players_[passer].coins = players_[passer].coins - loss
        /\ n.cur_player_turn_ = passer
        /\ n.cur_player_move_ = passer
        /\ n.is_turn_begin_
        /\ CurrentPlayer(n) = passer
        /\ \A p \in Players : n.players_[p].cards = players_[p].cards

\* C18's case: a steal was passed in the last step and the passer has the
\* turn.
C18_Witness ==
  /\ fatal = NoError
  /\ ~history_back.chance
  /\ history_back.action = kPassSteal
  /\ is_turn_begin_
  /\ cur_player_turn_ = history_back.player

\* An attack, its block and the pass that accepts the block.
BlockOf(attack) ==
  IF attack = kForeignAid THEN kBlockFA
  ELSE IF attack = kSteal THEN kBlockSteal
  ELSE kBlockAssassinate

PassBlockOf(attack) ==
  IF attack = kForeignAid THEN kPassFABlock
  ELSE IF attack = kSteal THEN kPassStealBlock
  ELSE kPassAssassinateBlock

\* C19: a pass on a block leaves both players' coins and hands as they were
\* when the block was declared and advances to the blocker's turn: a blocked
\* foreign aid or steal moves no coins, and the 3 coins paid for a blocked
\* assassination stay spent.
C19_PassOnBlock ==
  (fatal = NoError /\ is_turn_begin_ /\ CurrentPlayer(St) \in Players) =>
    \A attack \in {kForeignAid, kSteal, kAssassinate} :
      InLegal(attack) =>
        LET actor == cur_player_move_
            blocker == opp_player_
            blocked == ApplyAction(ApplyAction(St, attack), BlockOf(attack))
            n == ApplyAction(blocked, PassBlockOf(attack))
            cost == IF attack = kAssassinate THEN 3 ELSE 0
        IN  /\ n.fatal = NoError
            /\ \A p \in Players :
                 /\ n.players_[p].coins = blocked.players_[p].coins
                 /\ n.players_[p].cards = blocked.players_[p].cards
            /\ n.players_[actor].coins = players_[actor].coins - cost
            /\ n.players_[blocker].coins = players_[blocker].coins
            /\ n.cur_player_turn_ = blocker
            /\ n.cur_player_move_ = blocker
            /\ n.is_turn_begin_

\* C19's case: the block of a foreign aid was accepted in the last step and
\* the blocker has the turn.
C19_Witness ==
  /\ fatal = NoError
  /\ ~history_back.chance
  /\ history_back.action = kPassFABlock
  /\ is_turn_begin_
  /\ cur_player_turn_ = 1 - history_back.player

\* The start-of-turn menu for a mover with c coins against an opponent with
\* oc coins, in ascending action order.
MaxCoins == 12

TurnStartMenu(c, oc) ==
  IF c >= 10 THEN <<kCoup>>
  ELSE SelectSeq(<<kIncome, kForeignAid, kCoup, kTax, kAssassinate, kExchange,
                   kSteal>>,
                 LAMBDA a : \/ a \in {kIncome, kForeignAid, kTax, kExchange}
                            \/ a = kCoup /\ c >= 7
                            \/ a = kAssassinate /\ c >= 3
                            \/ a = kSteal /\ oc > 0)

\* The state s with the coins of the move player and of its opponent set.
WithCoins(s, c, oc) ==
  [s EXCEPT !.players_[s.cur_player_move_].coins = c,
            !.players_[s.opp_player_].coins = oc]

\* C20: at every start-of-turn decision point LegalActions() is exactly
\* <<coup>> when the mover has 10 or more coins; otherwise income, foreign
\* aid, tax and exchange, plus coup iff the mover has at least 7 coins,
\* assassinate iff at least 3, steal iff the opponent has more than 0, in
\* ascending action order.  Checked for the coins of the state and, in
\* their place, for every coin count of the mover up to MaxCoins against an
\* opponent with 0, 1 or 2 coins.
C20_TurnStartMenu ==
  (fatal = NoError /\ is_turn_begin_ /\ CurrentPlayer(St) \in Players) =>
    /\ ~LegalActionsAborts(St)
    /\ LegalActions(St) = TurnStartMenu(players_[cur_player_move_].coins,
                                        players_[opp_player_].coins)
    /\ \A c \in 0 .. MaxCoins, oc \in {0, 1, 2} :
         /\ ~LegalActionsAborts(WithCoins(St, c, oc))
         /\ LegalActions(WithCoins(St, c, oc)) = TurnStartMenu(c, oc)

\* C20's case: a start of turn of a player who can pay for a coup.
C20_Witness ==
  /\ fatal = NoError
  /\ is_turn_begin_
  /\ CurrentPlayer(St) \in Players
  /\ players_[cur_player_move_].coins >= 7
  /\ InLegal(kCoup)

\* The start of a turn of a player: the move player picks a declaration.
TurnStart ==
  /\ fatal = NoError
  /\ is_turn_begin_
  /\ CurrentPlayer(St) \in Players

\* The responses to each declaration, as the generic actions of coup.h.
ResponseMenu(last) ==
  IF last = kForeignAid THEN <<kPass, kBlock>>
  ELSE IF last = kSteal THEN <<kPass, kBlock, kChallenge>>
  ELSE <<kPass, kChallenge>>

\* C21: in the opponent's response window the legal actions depend only on
\* the pending declaration: foreign aid gives <<pass, block>>, tax and
\* exchange give <<pass, challenge>>, steal gives <<pass, block, challenge>>,
\* and the responder (the decision maker) is the player whose turn it is
\* not.
C21_ResponseWindow ==
  (/\ fatal = NoError
   /\ ~history_back.chance
   /\ history_back.action \in {kForeignAid, kTax, kExchange, kSteal}) =>
    /\ CurrentPlayer(St) = 1 - cur_player_turn_
    /\ history_back.player = cur_player_turn_
    /\ ~LegalActionsAborts(St)
    /\ GenericActions(LegalActions(St)) = ResponseMenu(history_back.action)
    /\ LegalActions(St)[1] = PassOf(history_back.action)
         \/ (history_back.action = kExchange
             /\ LegalActions(St)[1] = kPassExchange)
    /\ LegalActions(St)[Len(LegalActions(St))] \in
         {BlockOf(history_back.action), ChallengeOf(history_back.action)}

\* C21's case: a steal has just been declared and its victim may pass, block
\* or challenge.
C21_Witness ==
  /\ fatal = NoError
  /\ ~history_back.chance
  /\ history_back.action = kSteal
  /\ cur_player_move_ # cur_player_turn_
  /\ LegalActions(St) = <<kPassSteal, kBlockSteal, kChallengeSteal>>

\* C22: declaring an assassination takes 3 coins from the actor at once; the
\* victim then decides and its legal actions are exactly its lose-card
\* options (one per face-down position) followed by block and challenge,
\* with no pass among them.
C22_AssassinateDeclared ==
  (TurnStart /\ InLegal(kAssassinate)) =>
    LET actor == cur_player_move_
        victim == opp_player_
        n == ApplyAction(St, kAssassinate)
        r == LegalActionsCall(n)
    IN  /\ n.fatal = NoError
        /\ n.players_[actor].coins = players_[actor].coins - 3
        /\ n.players_[victim].coins = players_[victim].coins
        /\ CurrentPlayer(n) = victim
        /\ r = Legal(LoseOptions(n, victim)
                     \o <<kBlockAssassinate, kChallengeAssassinate>>)
        /\ Len(LoseOptions(n, victim)) = FaceDown(victim)
        /\ \A i \in DOMAIN r.legal : GenericAction(r.legal[i]) # kPass

\* C22's case: an assassination has just been declared against a player
\* who holds a face-up card.
C22_Witness ==
  /\ fatal = NoError
  /\ ~history_back.chance
  /\ history_back.action = kAssassinate
  /\ FaceUp(cur_player_move_) = 1
  /\ InLegal(kBlockAssassinate)

\* The hand cs with the card at position i (from 0) turned face up, in the
\* order the hand is kept in.
HandAfterLoss(cs, i) == SortCards([cs EXCEPT ![i + 1].state = kFaceUp])

\* C23: declaring a coup costs the actor exactly 7 coins and the victim
\* must choose a card to lose at once: its legal actions are exactly its
\* face-down lose-card options (no pass, block or challenge), and applying
\* one turns that card face up and gives reward +1 to the actor and -1 to
\* the victim for that step.
C23_Coup ==
  (TurnStart /\ InLegal(kCoup)) =>
    LET actor == cur_player_move_
        victim == opp_player_
        n == ApplyAction(St, kCoup)
        r == LegalActionsCall(n)
    IN  /\ n.fatal = NoError
        /\ n.players_[actor].coins = players_[actor].coins - 7
        /\ n.players_[victim].coins = players_[victim].coins
        /\ \A p \in Players : n.players_[p].cards = players_[p].cards
        /\ CurrentPlayer(n) = victim
        /\ r = Legal(LoseOptions(n, victim))
        /\ Len(r.legal) = FaceDown(victim)
        /\ Len(r.legal) > 0
        /\ \A i \in DOMAIN r.legal :
             LET m == ApplyAction(n, r.legal[i])
             IN  /\ m.fatal = NoError
                 /\ m.players_[victim].cards =
                      HandAfterLoss(players_[victim].cards,
                                    r.legal[i] - kLoseCard1)
                 /\ m.players_[actor].cards = players_[actor].cards
                 /\ Rewards(m)[actor] = 1
                 /\ Rewards(m)[victim] = -1

\* C23's case: the victim of a coup has just turned a card face up.
C23_Witness ==
  /\ fatal = NoError
  /\ ~history_back.chance
  /\ history_back.action \in {kLoseCard1, kLoseCard2}
  /\ players_[1 - history_back.player].last_action = kCoup
  /\ FaceUp(history_back.player) >= 1
  /\ cur_rewards_[history_back.player] = -1
  /\ cur_rewards_[1 - history_back.player] = 1

\* C24: when an assassination is challenged and the assassin holds a
\* face-down Assassin, the challenger loses every face-down card it still
\* holds in that one step, the state is terminal, and the step reward is +k
\* for the assassin and -k for the challenger, k the number of cards turned
\* up (2 when the challenger had two face-down cards).
C24_ChallengeAssassinateGenuine ==
  (Challengeable({kAssassinate}) /\ Genuine) =>
    LET acc == opp_player_
        chal == cur_player_move_
        k == FaceDown(chal)
        n == ApplyAction(St, kChallengeAssassinate)
    IN  /\ InLegal(kChallengeAssassinate)
        /\ n.fatal = NoError
        /\ k >= 1
        /\ FaceUpCount(n, chal) = FaceUp(chal) + k
        /\ FaceUpCount(n, chal) = Len(n.players_[chal].cards)
        /\ \A i \in DOMAIN players_[chal].cards :
             n.players_[chal].cards[i].value = players_[chal].cards[i].value
        /\ n.players_[acc].cards = players_[acc].cards
        /\ IsTerminal(n)
        /\ CurrentPlayer(n) = kTerminalPlayerId
        /\ Rewards(n)[acc] = k
        /\ Rewards(n)[chal] = -k

\* C24's case: an assassination by a holder of an Assassin was challenged
\* in the last step by a player with two face-down cards.
C24_Witness ==
  /\ fatal = NoError
  /\ ~history_back.chance
  /\ history_back.action = kChallengeAssassinate
  /\ HasFaceDownCard(players_[1 - history_back.player], kAssassin)
  /\ FaceUp(history_back.player) = 2
  /\ cur_rewards_[history_back.player] = -2
  /\ cur_rewards_[1 - history_back.player] = 2
  /\ IsTerminal(St)

\* C25: whenever the move player owes a card sacrifice (lost_challenge set)
\* at a player decision point, LegalActions() is exactly the lose-card
\* actions of that player's face-down positions, and applying one turns
\* exactly that card face up, clears the flag, and changes no coins and no
\* other card.
C25_OwedSacrifice ==
  (/\ fatal = NoError
   /\ CurrentPlayer(St) \in Players
   /\ players_[cur_player_move_].lost_challenge) =>
    LET cp == cur_player_move_
        r == LegalActionsCall(St)
    IN  /\ r = Legal(LoseOptions(St, cp))
        /\ Len(r.legal) = FaceDown(cp)
        /\ Len(r.legal) > 0
        /\ \A i \in DOMAIN r.legal :
             LET m == ApplyAction(St, r.legal[i])
             IN  /\ m.fatal = NoError
                 /\ m.players_[cp].cards =
                      HandAfterLoss(players_[cp].cards, r.legal[i] - kLoseCard1)
                 /\ FaceUpCount(m, cp) = FaceUp(cp) + 1
                 /\ ~m.players_[cp].lost_challenge
                 /\ m.players_[1 - cp].cards = players_[1 - cp].cards
                 /\ \A p \in Players : m.players_[p].coins = players_[p].coins

\* C25's case: a player who owed a sacrifice after a challenge has just
\* turned a card face up.
C25_Witness ==
  /\ fatal = NoError
  /\ ~history_back.chance
  /\ history_back.action \in {kLoseCard1, kLoseCard2}
  /\ players_[1 - history_back.player].last_action = kChallengeTax
  /\ ~players_[history_back.player].lost_challenge
  /\ FaceUp(history_back.player) >= 1

\* The exchange-return actions and the two hand positions (from 1) each one
\* names.
ExchangeReturns == kExchangeReturn12 .. kExchangeReturn34

ReturnPair(a) ==
  IF a = kExchangeReturn12 THEN {1, 2}
  ELSE IF a = kExchangeReturn13 THEN {1, 3}
  ELSE IF a = kExchangeReturn14 THEN {1, 4}
  ELSE IF a = kExchangeReturn23 THEN {2, 3}
  ELSE IF a = kExchangeReturn24 THEN {2, 4}
  ELSE {3, 4}

\* The cards of the hand cs at the positions outside pair, in hand order.
KeptCards(cs, pair) ==
  LET keep == {i \in DOMAIN cs : i \notin pair}
      lo == CHOOSE i \in keep : \A j \in keep : i <= j
      hi == CHOOSE i \in keep : \A j \in keep : i >= j
  IN  <<cs[lo], cs[hi]>>

\* The exchanger decides which two cards go back: the draws of an exchange
\* that was not challenged have been dealt.
ExchangeReturnPoint ==
  /\ fatal = NoError
  /\ CurrentPlayer(St) \in Players
  /\ ~is_turn_begin_
  /\ cur_player_move_ = cur_player_turn_
  /\ players_[cur_player_move_].last_action = kExchange
  /\ ~players_[cur_player_move_].lost_challenge

\* C26: after an exchange that the opponent passed, two cards are drawn to
\* the exchanger (a hand of 4); the exchanger's legal actions are pairs of
\* positions to return, and after applying one the hand holds exactly the 2
\* cards that were not chosen (same roles and visibilities) and the turn
\* advances to the opponent at the start of its turn.
C26_ExchangePassed ==
  /\ Challengeable({kExchange}) =>
       LET actor == opp_player_
           n == ApplyAction(St, kPassExchange)
       IN  /\ n.fatal = NoError
           /\ n.deal_card_to_ = <<actor, actor>>
           /\ CurrentPlayer(n) = kChancePlayerId
           /\ \A p \in Players : n.players_[p].cards = players_[p].cards
           /\ \A c1, c2 \in CardTypes :
                LET d1 == ApplyAction(n, c1)
                    d2 == ApplyAction(d1, c2)
                IN  (n.deck_[c1] > 0 /\ d1.deck_[c2] > 0) =>
                      /\ d2.fatal = NoError
                      /\ Len(d1.players_[actor].cards) = 3
                      /\ Len(d2.players_[actor].cards) = 4
                      /\ CurrentPlayer(d2) = actor
                      /\ d2.players_[1 - actor].cards = players_[1 - actor].cards
  /\ ExchangeReturnPoint =>
       LET cp == cur_player_move_
           r == LegalActionsCall(St)
       IN  /\ HandSize(cp) = 4
           /\ history_back.chance /\ history_back.player = cp
           /\ players_[1 - cp].last_action = kPassExchange
           /\ r.fatal = NoError
           /\ Len(r.legal) > 0
           /\ \A i \in DOMAIN r.legal :
                LET m == ApplyAction(St, r.legal[i])
                IN  /\ r.legal[i] \in ExchangeReturns
                    /\ m.fatal = NoError
                    /\ m.players_[cp].cards =
                         KeptCards(players_[cp].cards, ReturnPair(r.legal[i]))
                    /\ m.players_[1 - cp].cards = players_[1 - cp].cards
                    /\ m.cur_player_turn_ = 1 - cp
                    /\ m.cur_player_move_ = 1 - cp
                    /\ m.is_turn_begin_
                    /\ CurrentPlayer(m) = 1 - cp

\* C26's case: an exchange that was passed has been completed with a return
\* and the opponent has the turn.
C26_Witness ==
  /\ fatal = NoError
  /\ ~history_back.chance
  /\ history_back.action \in ExchangeReturns
  /\ players_[1 - history_back.player].last_action = kPassExchange
  /\ HandSize(history_back.player) = 2
  /\ is_turn_begin_
  /\ cur_player_turn_ = 1 - history_back.player

\* C27: at an exchange-return decision point the legal actions are exactly
\* the pairs of hand positions that are both face down: all six pairs when
\* the exchanger has no face-up card, the three pairs that avoid the face-up
\* position when one card is face up; so no legal return puts a face-up
\* card back into the deck.
C27_ReturnFaceDownPairs ==
  ExchangeReturnPoint =>
    LET cp == cur_player_move_
        cs == players_[cp].cards
        r == LegalActionsCall(St)
    IN  /\ r.fatal = NoError
        /\ Len(cs) = 4
        /\ {r.legal[i] : i \in DOMAIN r.legal} =
             {a \in ExchangeReturns :
                \A j \in ReturnPair(a) : cs[j].state = kFaceDown}
        /\ FaceUp(cp) \in {0, 1}
        /\ Len(r.legal) = IF FaceUp(cp) = 0 THEN 6 ELSE 3
        /\ \A i \in DOMAIN r.legal :
             FaceUpCount(ApplyAction(St, r.legal[i]), cp) = FaceUp(cp)

\* C27's case: the exchanger decides on the return with one card of the
\* four face up.
C27_Witness ==
  /\ ExchangeReturnPoint
  /\ HandSize(cur_player_move_) = 4
  /\ FaceUp(cur_player_move_) = 1
  /\ Len(LegalActions(St)) = 3

\* C28: a chance draw changes only the deck count of the drawn role, the
\* hand of the player dealt to, the pending-deal queue and the chance flag:
\* the turn player, the move player, the opponent pointer, the start-of-turn
\* flag, the turn counter, both coin counts, both last actions and both
\* owed-sacrifice flags are as before, and when the queue empties the move
\* player of before the draw decides next.
C28_ChanceDrawFrame ==
  (fatal = NoError /\ IsChanceNode(St)) =>
    \A c \in CardTypes :
      deck_[c] > 0 =>
        LET n == ApplyAction(St, c)
            to == Head(deal_card_to_)
        IN  /\ n.fatal = NoError
            /\ n.deck_ = [deck_ EXCEPT ![c] = @ - 1]
            /\ n.deal_card_to_ = Tail(deal_card_to_)
            /\ Len(n.players_[to].cards) = HandSize(to) + 1
            /\ n.players_[1 - to].cards = players_[1 - to].cards
            /\ n.cur_player_turn_ = cur_player_turn_
            /\ n.cur_player_move_ = cur_player_move_
            /\ n.opp_player_ = opp_player_
            /\ n.is_turn_begin_ = is_turn_begin_
            /\ n.turn_number_ = turn_number_
            /\ n.cur_rewards_ = cur_rewards_
            /\ \A p \in Players :
                 /\ n.players_[p].coins = players_[p].coins
                 /\ n.players_[p].last_action = players_[p].last_action
                 /\ n.players_[p].lost_challenge = players_[p].lost_challenge
            /\ n.is_chance_ = (n.deal_card_to_ # <<>>)
            /\ n.deal_card_to_ = <<>> => CurrentPlayer(n) = cur_player_move_

\* C28's case: the replacement of a proven card has just been drawn, the
\* queue is empty and the challenger, who moved before the draw, decides.
C28_Witness ==
  /\ fatal = NoError
  /\ history_back.chance
  /\ num_decisions > 0
  /\ deal_card_to_ = <<>>
  /\ history_back.player # cur_player_move_
  /\ players_[cur_player_move_].lost_challenge
  /\ CurrentPlayer(St) = cur_player_move_

\* C29: in every reachable state the pending-deal queue is non-empty
\* exactly when the current decision maker, CurrentPlayer(), is the chance
\* player.
C29_QueueIffChance ==
  fatal = NoError =>
    ((deal_card_to_ # <<>>) <=> (CurrentPlayer(St) = kChancePlayerId))

\* C30: game length bound.  Every play reaches a terminal state after at
\* most MaxGameLength (90) player decisions: no player decision is left to
\* take in a state whose history holds 90 player decisions already, also in
\* plays where the players keep blocking without ever attacking.
C30_GameLengthBound ==
  (fatal = NoError /\ CurrentPlayer(St) \in Players) =>
    num_decisions < MaxGameLength

\* C31: both players' coin counts are non-negative in every state reached
\* by legal actions: after a coup (-7), an assassination (-3) and every
\* steal, also a steal completed through a lost challenge.
C31_CoinsNonNegative ==
  \A p \in Players : players_[p].coins >= 0

\* C31's case: a steal from a player who owned a single coin has been
\* completed and left that player with none.
C31_Witness ==
  /\ fatal = NoError
  /\ ~history_back.chance
  /\ history_back.action \in {kPassSteal, kChallengeSteal}
  /\ players_[history_back.player].coins = 0
  /\ players_[1 - history_back.player].coins % 2 = 1

\* A deal to player p is pending in the queue.
QueuedFor(p) == \E i \in DOMAIN deal_card_to_ : deal_card_to_[i] = p

\* C32: hand sizes.  At every player decision point each hand holds exactly
\* 2 cards, except that the move player at an exchange-return decision
\* holds exactly 4; no hand ever holds more than 4 cards, and a hand holds
\* fewer than 2 only while a deal to that player is pending in the queue.
C32_HandSizes ==
  /\ \A p \in Players :
       /\ HandSize(p) <= kMaxCardsInHand
       /\ HandSize(p) < 2 => QueuedFor(p)
  /\ (fatal = NoError /\ CurrentPlayer(St) \in Players) =>
       \A p \in Players :
         HandSize(p) =
           IF p = cur_player_move_ /\ ExchangeReturnPoint THEN 4 ELSE 2

\* C32's case: in the middle of a play a proven card has gone back to the
\* deck and its holder has one card while the replacement is queued.
C32_Witness ==
  /\ fatal = NoError
  /\ num_decisions > 0
  /\ \E p \in Players : HandSize(p) = 1 /\ deal_card_to_ = <<p>>

\* C33: no deadlock.  At every reachable player decision point that is not
\* terminal, LegalActions() returns a non-empty list without aborting (the
\* "Invalid action progression" error is unreachable) and the move player
\* has at least one face-down card.
C33_NoDeadlock ==
  (fatal = NoError /\ CurrentPlayer(St) \in Players /\ ~IsTerminal(St)) =>
    /\ ~LegalActionsAborts(St)
    /\ Len(LegalActions(St)) > 0
    /\ FaceDown(cur_player_move_) >= 1

\* C35: cursor consistency.  In every reachable state the opponent pointer
\* is the other player than the move player, and whenever the
\* start-of-turn flag is set the move player is the turn player.
C35_CursorConsistency ==
  /\ opp_player_ = 1 - cur_player_move_
  /\ is_turn_begin_ => cur_player_move_ = cur_player_turn_

\* C35's case: a response window, the move player being the opponent of
\* the turn player.
C35_Witness ==
  /\ fatal = NoError
  /\ CurrentPlayer(St) \in Players
  /\ ~is_turn_begin_
  /\ cur_player_move_ = 1 - cur_player_turn_
  /\ opp_player_ = cur_player_turn_

\* C38: total card count.  In every reachable state the five deck counts
\* plus the cards in both hands add up to 15, and every deck count is at
\* least 0.
C38_TotalCards ==
  /\ DeckSize(St) + HandSize(0) + HandSize(1)
       = kNumCardTypes * kNumEachCardInDeck
  /\ \A c \in CardTypes : deck_[c] >= 0

\* C38's case: an exchange return has put two cards back and the count of
\* some role is off while the total is 15.
C38_Witness ==
  /\ fatal = NoError
  /\ ~history_back.chance
  /\ history_back.action \in ExchangeReturns
  /\ \E c \in CardTypes : deck_[c] + CopiesInHands(c) # kNumEachCardInDeck
  /\ DeckSize(St) = 11

\* C40: income at the start of a turn adds exactly 1 coin to the mover,
\* flips no card, leaves the opponent's coins, both hands and the deck as
\* they were, and passes the turn to the opponent at the start of its turn,
\* with no response window.
C40_Income ==
  TurnStart =>
    LET cp == cur_player_move_
        op == opp_player_
        n == ApplyAction(St, kIncome)
    IN  /\ players_[cp].coins < 10 <=> InLegal(kIncome)
        /\ n.fatal = NoError
        /\ n.players_[cp].coins = players_[cp].coins + 1
        /\ n.players_[op].coins = players_[op].coins
        /\ \A p \in Players : n.players_[p].cards = players_[p].cards
        /\ n.deck_ = deck_
        /\ n.deal_card_to_ = <<>>
        /\ n.cur_player_turn_ = op
        /\ n.cur_player_move_ = op
        /\ n.is_turn_begin_
        /\ n.turn_number_ = turn_number_ + 1
        /\ CurrentPlayer(n) = op

\* C40's case: an income has just been taken and the opponent is at the
\* start of its turn.
C40_Witness ==
  /\ fatal = NoError
  /\ ~history_back.chance
  /\ history_back.action = kIncome
  /\ is_turn_begin_
  /\ cur_player_turn_ = 1 - history_back.player
  /\ CurrentPlayer(St) = cur_player_turn_

\* The step applies a player decision.
PlayerStep == ~history_back'.chance /\ num_decisions' = num_decisions + 1

\* C34: turn alternation.  The turn counter never decreases; it increases
\* by exactly one each time a turn ends (a player decision after which a
\* turn begins) and by nothing otherwise; the turn player flips on every
\* increment and only then, so the turn player equals the turn counter
\* modulo 2.
C34_TurnCounter ==
  [][ /\ turn_number_' \in {turn_number_, turn_number_ + 1}
      /\ (turn_number_' = turn_number_ + 1)
           <=> (cur_player_turn_' = 1 - cur_player_turn_)
      /\ PlayerStep =>
           (is_turn_begin_' <=> turn_number_' = turn_number_ + 1)
      /\ ~PlayerStep => turn_number_' = turn_number_
      /\ cur_player_turn_ = turn_number_ % kNumPlayers
      /\ cur_player_turn_' = turn_number_' % kNumPlayers ]_vars

\* C34's case: three turns have ended and the turn is with player 1.
C34_Witness ==
  /\ fatal = NoError
  /\ turn_number_ = 3
  /\ cur_player_turn_ = 1
  /\ is_turn_begin_
  /\ CurrentPlayer(St) = 1

\* The number of face-up copies of role c in the hand of player p.
UpCopies(p, c) ==
  Cardinality({i \in 1 .. Len(players_[p].cards) :
    players_[p].cards[i].value = c /\ players_[p].cards[i].state = kFaceUp})

\* C37: monotonicity.  A face-up card is never turned face down again and
\* never leaves the hand: per player and role the number of face-up copies
\* never decreases, each player's face-up count never decreases and is at
\* most 2, and Returns() is within [-2, 2] with sum 0.
C37_FaceUpMonotone ==
  [][ \A p \in Players :
        /\ \A c \in CardTypes : UpCopies(p, c)' >= UpCopies(p, c)
        /\ FaceUp(p)' >= FaceUp(p)
        /\ FaceUp(p)' <= 2
        /\ Returns(St)'[p] >= MinUtility
        /\ Returns(St)'[p] <= MaxUtility
        /\ Returns(St)'[0] + Returns(St)'[1] = UtilitySum ]_vars

\* C37's case: a player with a face-up card has gone through an exchange
\* (two draws, two returns) and still shows that card.
C37_Witness ==
  /\ fatal = NoError
  /\ ~history_back.chance
  /\ history_back.action \in ExchangeReturns
  /\ FaceUp(history_back.player) = 1
  /\ HandSize(history_back.player) = 2

\* The play cannot go on from a player decision point that is not terminal:
\* LegalActions() aborts or is empty, or one of its actions aborts when it
\* is applied.
Stuck ==
  /\ ~IsChanceNode(St)
  /\ ~IsTerminal(St)
  /\ \/ LegalActionsAborts(St)
     \/ Len(LegalActions(St)) = 0
     \/ \E i \in DOMAIN LegalActions(St) :
          ApplyAction(St, LegalActions(St)[i]).fatal # NoError

\* The counting half of C36 alone: no player decision is a fifth one of its
\* turn and no chance draw a fourth one (the opening deal apart).
TurnCounts ==
  [][ /\ PlayerStep => turn_decisions < 4
      /\ turn_draws' <= 3 ]_vars

\* C36: every turn is finite and short.  Between two consecutive increments
\* of the turn counter at most 4 player decisions and at most 3 chance
\* draws are applied, so from any non-terminal state every sequence of
\* legal actions ends the turn or the game within that many steps: no
\* decision is a fifth one of its turn, no draw a fourth one, and at a
\* state that is not terminal the play is never stuck.
C36_ShortTurns ==
  [][ /\ PlayerStep => turn_decisions < 4
      /\ turn_draws' <= 3
      /\ fatal = NoError => ~Stuck ]_vars

\* C39: coin ceiling.  Under legal play no player ever holds more than 12
\* coins: a player with 10 or more coins at the start of their turn can
\* only coup, a player holds at most 3 coins more than at the start of
\* their turn, and the other player never more than at the start of it.
C39_CoinCeiling ==
  LET tp == cur_player_turn_
  IN  /\ \A p \in Players : players_[p].coins <= 12
      /\ (TurnStart /\ players_[cur_player_move_].coins >= 10) =>
           /\ ~LegalActionsAborts(St)
           /\ LegalActions(St) = <<kCoup>>
      /\ players_[tp].coins <= turn_start_coins[tp] + 3
      /\ players_[1 - tp].coins <= turn_start_coins[1 - tp]

\* C39's case: a player is at the start of a turn with 12 coins, and the
\* coup is the one legal action.
C39_Witness ==
  /\ TurnStart
  /\ players_[cur_player_move_].coins = 12
  /\ LegalActions(St) = <<kCoup>>
=============================================================================
